---- MODULE Spec2Model ----
(***************************************************************************)
(* Model of the recipe extraction service (src/src/index.ts and the video  *)
(* agent in src/src/services/scraper.ts).                                   *)
(*                                                                         *)
(* The /process handler validates the request, hands an async task to a   *)
(* PQueue of concurrency MAX_CONCURRENT_SCRAPES and answers with what the  *)
(* task resolved or rejected with.  The task awaits three calls in turn:   *)
(* scraper.scrapeUrl, aiService.extractRecipe and processVideoRecipe.      *)
(* Every action below is one run of handler code between two awaits.       *)
(***************************************************************************)
EXTENDS Integers, Sequences, FiniteSets, TLC

VARIABLES
    nodeEnv,        \* process.env.NODE_ENV
    pc,             \* per request: where its handler is suspended
    reqUrl,         \* per request: the url of its body, once received
    reqFlags,       \* per request: the other fields of its body, as sent
    socket,         \* per request: its connection, "open" or "destroyed"
    waiting,        \* PQueue: the tasks added and not yet started, in order
    pending,        \* PQueue: the number of tasks started and not settled
    extracted,      \* per request: what extractRecipe returned
    scrapingError,  \* per request: the error caught at index.ts:205
    videoCalls,     \* per request: how often processVideoRecipe was called
    videoOutcome,   \* per request: what the download and the backend did
    videoResult,    \* per request: what processVideoRecipe returned
    usageMetrics,   \* per request: the usage records pushed so far
    response,       \* per request: the HTTP response sent
    billed,         \* per request: tokens of every backend answer received
    arrival,        \* per request: its rank among the accepted requests
    clock,          \* the number of requests accepted so far
    fs,             \* the file system: what each path holds
    run,            \* per video run: the locals of processVideoRecipe/downloadVideo
    toolRuns,       \* per video run: the yt-dlp commands executed, in order
    scrape,         \* per scrapeUrl call: its position, its browser, its result
    ledger,         \* usage records handed to the aggregation, and its result
    db,             \* the store: the Folder, Recipe and Tag tables
    tagCall,        \* per POST /tags call: its position, its name, its response
    storeReply      \* the response of the last folder route that ran

pipelineVars ==
    <<nodeEnv, pc, reqUrl, reqFlags, socket, waiting, pending, extracted, scrapingError, videoCalls,
      videoOutcome, videoResult, usageMetrics, response, billed, arrival, clock>>

videoVars == <<fs, run, toolRuns>>

scraperVars == <<scrape>>

usageVars == <<ledger>>

storeVars == <<db, tagCall, storeReply>>

\* Everything the /process handler itself leaves alone.
agentVars == <<videoVars, scraperVars, usageVars, storeVars>>

vars == <<pipelineVars, videoVars, scraperVars, usageVars, storeVars>>

----------------------------------------------------------------------------
(* Bounds and program constants *)

NumRequests == 1

QueueRequests == 4

NumRuns == 1

NumScrapes == 2

MaxMetrics == 3

NumTagCalls == 2

MaxTime == 0

MAX_CONCURRENT_SCRAPES == 2

Requests == DOMAIN pc

----------------------------------------------------------------------------
(* Values *)

None == [kind |-> "none"]

\* A string is the tuple of its characters.
sMix == <<"M", "i", "x">>

sCuire == <<"C", "u", "i", "r", "e", " ", "2", "0", " ", "m", "i", "n">>

sFarine == <<"f", "a", "r", "i", "n", "e">>

\* "     Mix     ": 13 characters, 3 once trimmed
sPadded == <<" ", " ", " ", " ", " ", "M", "i", "x", " ", " ", " ", " ", " ">>

IsSpace(c) == c \in {" ", "\t", "\n"}

RECURSIVE TrimStart(_)
TrimStart(s) ==
    IF s = <<>> THEN <<>>
    ELSE IF IsSpace(Head(s)) THEN TrimStart(Tail(s)) ELSE s

RECURSIVE TrimEnd(_)
TrimEnd(s) ==
    IF s = <<>> THEN <<>>
    ELSE IF IsSpace(s[Len(s)]) THEN TrimEnd(SubSeq(s, 1, Len(s) - 1)) ELSE s

Trim(s) == TrimEnd(TrimStart(s))

\* A recipe: "present" lists the array fields the backend's JSON carried.
Recipe(src, present, steps, ingredients) ==
    [kind |-> "recipe", src |-> src, present |-> present,
     steps |-> steps, ingredients |-> ingredients]

Usage(p, c, t) ==
    [kind |-> "usage", promptTokens |-> p, candidatesTokens |-> c, totalTokens |-> t]

WebUsage == Usage(10, 5, 15)

VideoUsage == Usage(100, 20, 120)

ZeroTokens == [promptTokens |-> 0, candidatesTokens |-> 0, totalTokens |-> 0]

\* u?.field || 0
Tokens(u) ==
    IF u.kind = "usage"
    THEN [promptTokens |-> u.promptTokens, candidatesTokens |-> u.candidatesTokens,
          totalTokens |-> u.totalTokens]
    ELSE ZeroTokens

\* A slip: the total is assigned from one record, not added.
AddTokens_TotalAssigned(a, b) ==
    [promptTokens |-> a.promptTokens + b.promptTokens,
     candidatesTokens |-> a.candidatesTokens + b.candidatesTokens,
     totalTokens |-> a.totalTokens]

AddTokens(a, b) ==
    [promptTokens |-> a.promptTokens + b.promptTokens,
     candidatesTokens |-> a.candidatesTokens + b.candidatesTokens,
     totalTokens |-> a.totalTokens + b.totalTokens]

Error(origin, message) == [kind |-> "error", origin |-> origin, message |-> message]

----------------------------------------------------------------------------
(* Request validation: src/src/utils/security.ts *)

Url(wellFormed, protocol, hostname, privateIp) ==
    [wellFormed |-> wellFormed, protocol |-> protocol, hostname |-> hostname,
     privateIp |-> privateIp]

\* A hostname is the tuple of its dot-separated labels.
uInstagram == Url(TRUE, "https:", <<"www", "instagram", "com">>, FALSE)

uTikTok == Url(TRUE, "https:", <<"vm", "tiktok", "com">>, FALSE)

uLocalhost == Url(TRUE, "http:", <<"localhost">>, FALSE)

uFtp == Url(TRUE, "ftp:", <<"example", "com">>, FALSE)

uPrivateIp == Url(TRUE, "http:", <<"192", "168", "1", "10">>, TRUE)

uGarbage == Url(FALSE, "", <<>>, FALSE)

Urls == {uInstagram, uTikTok, uLocalhost, uFtp, uPrivateIp, uGarbage}

BLOCKED_HOSTNAMES ==
    {<<"localhost">>, <<"127", "0", "0", "1">>, <<"::1">>, <<"0", "0", "0", "0">>}

safeUrlSchema(url) ==
    /\ url.wellFormed
    /\ url.protocol \in {"http:", "https:"}
    /\ url.hostname \notin BLOCKED_HOSTNAMES
    /\ ~url.privateIp

validateRequest(url) == safeUrlSchema(url)

----------------------------------------------------------------------------
(* Page structuring: AIService.extractRecipe, src/src/services/ai.ts *)

\* The JSON the backend answered with; "present" lists the fields it carries.
Json(present, steps, ingredients, isIncomplete) ==
    [kind |-> "json", present |-> present, steps |-> steps,
     ingredients |-> ingredients, isIncomplete |-> isIncomplete]

Unparsable == [kind |-> "unparsable"]

jComplete == Json({"steps", "ingredients", "isIncomplete"}, <<sCuire>>, <<sFarine>>, "false")

jNoSteps == Json({"steps", "ingredients", "isIncomplete"}, <<>>, <<sFarine>>, "false")

jShortSteps == Json({"steps", "ingredients", "isIncomplete"}, <<sMix>>, <<sFarine>>, "false")

jFlagged == Json({"steps", "ingredients", "isIncomplete"}, <<sCuire>>, <<sFarine>>, "true")

jBare == Json({}, <<>>, <<>>, "absent")

jNoIngredients == Json({"steps", "ingredients", "isIncomplete"}, <<sCuire>>, <<>>, "false")

jPaddedSteps == Json({"steps", "ingredients", "isIncomplete"}, <<sPadded>>, <<sFarine>>, "false")

jMixedSteps ==
    Json({"steps", "ingredients", "isIncomplete"}, <<sMix, sCuire>>, <<sFarine>>, "false")

WebJsons ==
    {jComplete, jNoSteps, jShortSteps, jFlagged, jBare, jNoIngredients, jPaddedSteps,
     jMixedSteps}

\* parsedData.field || []
OrEmpty(json, field) == IF field \in json.present THEN json[field] ELSE <<>>

\* ai.ts:229-244, for a backend answer that parsed
extractRecipe(json, usageMetadata) ==
    [kind |-> "extraction",
     recipe |-> Recipe("web", {"steps", "ingredients", "tips"},
                       OrEmpty(json, "steps"), OrEmpty(json, "ingredients")),
     isIncomplete |-> ("isIncomplete" \in json.present /\ json.isIncomplete = "true"),
     usage |-> usageMetadata]

aiError == Error("web", <<"Failed", "to", "extract", "recipe", "via", "AI">>)

\* What the backend can do with one page structuring call.
WebBackendOutcomes ==
    { [backend |-> "ok", text |-> j, usage |-> u] :
        j \in WebJsons \cup {Unparsable}, u \in {None, WebUsage} }
    \cup { [backend |-> b, text |-> Unparsable, usage |-> None] : b \in {"429", "error"} }

----------------------------------------------------------------------------
(* Completeness check: src/src/index.ts:135-149 *)

hasSteps(recipe) == "steps" \in recipe.present /\ Len(recipe.steps) > 0

hasIngredients(recipe) ==
    "ingredients" \in recipe.present /\ Len(recipe.ingredients) > 0

\* A slip: the length is taken before trimming.
isValidSteps_NoTrim(recipe) ==
    /\ "steps" \in recipe.present
    /\ \E i \in 1..Len(recipe.steps) :
         recipe.steps[i] # <<>> /\ Len(recipe.steps[i]) > 10

\* A slip: every() in place of some().
isValidSteps_Every(recipe) ==
    /\ "steps" \in recipe.present
    /\ \A i \in 1..Len(recipe.steps) :
         recipe.steps[i] # <<>> /\ Len(Trim(recipe.steps[i])) > 10

isValidSteps(recipe) ==
    /\ "steps" \in recipe.present
    /\ \E i \in 1..Len(recipe.steps) :
         recipe.steps[i] # <<>> /\ Len(Trim(recipe.steps[i])) > 10

\* A slip: only the backend's own verdict is looked at.
NeedsVideo_FlagOnly(recipe, isIncomplete) == isIncomplete

\* A slip: the backend's own verdict is not looked at.
NeedsVideo_IgnoresFlag(recipe, isIncomplete) ==
    ~hasSteps(recipe) \/ ~isValidSteps(recipe)

NeedsVideo(recipe, isIncomplete) ==
    isIncomplete \/ ~hasSteps(recipe) \/ ~isValidSteps(recipe)

----------------------------------------------------------------------------
(* Video path: processVideoRecipe, src/src/services/scraper.ts:407-516 *)

vSteps == Json({"steps", "ingredients"}, <<sCuire, sMix>>, <<sFarine>>, "absent")

vNoSteps == Json({"steps", "ingredients"}, <<>>, <<sFarine>>, "absent")

vBare == Json({}, <<>>, <<>>, "absent")

VideoJsons == {vSteps, vNoSteps, vBare}

\* What the download and the backend can do during one processVideoRecipe.
VideoOutcomes ==
    { [download |-> "ok", backend |-> "ok", text |-> j, usage |-> u] :
        j \in VideoJsons \cup {Unparsable}, u \in {None, VideoUsage} }
    \cup { [download |-> "ok", backend |-> b, text |-> Unparsable, usage |-> None] :
             b \in {"429", "404", "error"} }
    \cup { [download |-> "failed", backend |-> "unused", text |-> Unparsable,
            usage |-> None] }

\* A slip: a quota error is answered with an empty recipe instead of null.
processVideoRecipe_QuotaGivesRecipe(o) ==
    IF o.download # "ok" THEN None
    ELSE IF o.backend = "429"
    THEN [kind |-> "videoResult", recipe |-> Recipe("video", {}, <<>>, <<>>), usage |-> None]
    ELSE IF o.backend # "ok" THEN None
    ELSE IF o.text.kind # "json" THEN None
    ELSE [kind |-> "videoResult",
          recipe |-> Recipe("video", o.text.present, o.text.steps, o.text.ingredients),
          usage |-> o.usage]

\* A slip: the catch throws the error on instead of returning null.
processVideoRecipe_Rethrows(o) ==
    IF o.download # "ok" \/ o.backend # "ok" \/ o.text.kind # "json"
    THEN Error("video", <<"Erreur", "dans", "VideoAgent">>)
    ELSE [kind |-> "videoResult",
          recipe |-> Recipe("video", o.text.present, o.text.steps, o.text.ingredients),
          usage |-> o.usage]

\* try { download; generateContent; JSON.parse; return {recipe, usage} }
\* catch { return null }
processVideoRecipe(o) ==
    IF o.download # "ok" THEN None
    ELSE IF o.backend # "ok" THEN None
    ELSE IF o.text.kind # "json" THEN None
    ELSE [kind |-> "videoResult",
          recipe |-> Recipe("video", o.text.present, o.text.steps, o.text.ingredients),
          usage |-> o.usage]

\* The tokens the backend reported for the call of outcome o, if it answered.
BackendTokens(o) == IF o.backend = "ok" THEN Tokens(o.usage) ELSE ZeroTokens

\* recipe.steps?.length || 0
StepsLength(recipe) == IF "steps" \in recipe.present THEN Len(recipe.steps) ELSE 0

----------------------------------------------------------------------------
(* Admission queue: new PQueue({ concurrency: MAX_CONCURRENT_SCRAPES }),   *)
(* src/src/index.ts:30.  add() appends the task and tries to start one; a  *)
(* task that settles frees its slot and tries to start one.                *)

\* A slip: one task too many is let in.
ConcurrentAllowsAnother_OffByOne(p) == p <= MAX_CONCURRENT_SCRAPES

ConcurrentAllowsAnother(p) == p < MAX_CONCURRENT_SCRAPES

\* A slip: the task added last is started first.
DequeueIndex_Last(q) == Len(q)

\* The place in the waiting line of the task started next.
DequeueIndex(q) == 1

RemoveAt(q, i) == [j \in 1..(Len(q) - 1) |-> IF j < i THEN q[j] ELSE q[j + 1]]

TryToStartAnother(q, p) ==
    IF q # <<>> /\ ConcurrentAllowsAnother(p)
    THEN [start |-> {q[DequeueIndex(q)]}, queue |-> RemoveAt(q, DequeueIndex(q)),
          pending |-> p + 1]
    ELSE [start |-> {}, queue |-> q, pending |-> p]

\* A started task runs index.ts:92-109 and awaits scraper.scrapeUrl.
Executing == {"scraping", "ai_analysis", "video", "video_fallback"}

----------------------------------------------------------------------------
(* Responses: src/src/index.ts:79-83, 268-274, 284-291 *)

Includes(message, word) == \E i \in 1..Len(message) : message[i] = word

isTimeout(message) == Includes(message, "Timeout") \/ Includes(message, "timed out")

\* details: the issues zod found in the body (validation.error.errors)
RejectedResponse ==
    [kind |-> "response", success |-> FALSE, status |-> 400,
     error |-> "Invalid URL provided", details |-> "validation.error.errors"]

\* usageMetrics.reduce(...), index.ts:239-245
aggregatedUsage(metrics) ==
    IF Len(metrics) > 0
    THEN LET RECURSIVE Sum(_)
             Sum(m) == IF m = <<>> THEN ZeroTokens
                       ELSE AddTokens(Tokens(Head(m)), Sum(Tail(m)))
             total == Sum(metrics)
         IN Usage(total.promptTokens, total.candidatesTokens, total.totalTokens)
    ELSE None

SuccessResponse(recipe, method, metrics) ==
    [kind |-> "response", success |-> TRUE, status |-> 200, method |-> method,
     data |-> recipe, usage |-> aggregatedUsage(metrics)]

\* "caught" is the error the handler caught and logged (index.ts:276-282).
\* A slip: the message is sent whatever the mode.
FailureResponse_AlwaysMessage(error, env) ==
    [kind |-> "response", success |-> FALSE,
     status |-> IF isTimeout(error.message) THEN 504 ELSE 500,
     error |-> "Failed to process recipe",
     message |-> error.message,
     caught |-> error]

FailureResponse(error, env) ==
    [kind |-> "response", success |-> FALSE,
     status |-> IF isTimeout(error.message) THEN 504 ELSE 500,
     error |-> "Failed to process recipe",
     message |-> IF env = "development" THEN error.message ELSE <<>>,
     caught |-> error]

----------------------------------------------------------------------------
(* Video fetcher: downloadVideo and processVideoRecipe,                    *)
(* src/src/services/scraper.ts:257-516                                      *)

Path(dir, name, stamp) == [dir |-> dir, name |-> name, stamp |-> stamp]

\* null, or '' for cookiesArg
NoPath == Path("", "", 0)

COOKIES_PATH == Path("app", "cookies.txt", 0)

COOKIES_TIKTOK_PATH == Path("app", "cookies-tiktok.txt", 0)

\* path.join(tmpDir, `cookies_${Date.now()}.txt`)
TempCookiesPath(t) == Path("tmp", "cookies", t)

\* path.resolve(tmpDir, `recipe_${timestamp}.mp4`)
OutputPath(t) == Path("tmp", "recipe", t)

AllPaths ==
    {COOKIES_PATH, COOKIES_TIKTOK_PATH}
    \cup {TempCookiesPath(t) : t \in 0..MaxTime} \cup {OutputPath(t) : t \in 0..MaxTime}

Absent == [kind |-> "absent"]

\* A cookie file: the platform it was exported from, and whether a tool rewrote it.
Cookies(owner, rewritten) == [kind |-> "cookies", owner |-> owner, rewritten |-> rewritten]

\* A video file: "empty" or "full".
Video(size) == [kind |-> "video", size |-> size]

existsSync(f, p) == p \in DOMAIN f /\ f[p].kind # "absent"

unlinkSync(f, p) == [f EXCEPT ![p] = Absent]

ContainsLabels(host, labels) ==
    \E i \in 1..Len(host) :
        /\ i + Len(labels) - 1 <= Len(host)
        /\ SubSeq(host, i, i + Len(labels) - 1) = labels

\* scraper.ts:262-269
isTikTokUrl(url) ==
    /\ url.wellFormed
    /\ \/ ContainsLabels(url.hostname, <<"tiktok", "com">>)
       \/ ContainsLabels(url.hostname, <<"vm", "tiktok", "com">>)

\* scraper.ts:272-277
getCookiesPathForUrl(url, f) ==
    IF isTikTokUrl(url) /\ existsSync(f, COOKIES_TIKTOK_PATH)
    THEN COOKIES_TIKTOK_PATH
    ELSE COOKIES_PATH

\* A slip: the most permissive command comes first.
Strategies_AnyFormatFirst ==
    <<"any format", "720p optimized", "720p MP4 fallback", "best quality (720p limit)">>

\* A slip: the most permissive command is missing.
Strategies_WithoutAnyFormat ==
    <<"720p optimized", "720p MP4 fallback", "best quality (720p limit)">>

\* scraper.ts:305-322
Strategies ==
    <<"720p optimized", "720p MP4 fallback", "best quality (720p limit)", "any format">>

\* scraper.ts:282-303: the cookie jar of the commands; copyOk is whether
\* copyFileSync succeeded.
PrepareCookies(url, f, t, copyOk) ==
    LET cookiesPath == getCookiesPathForUrl(url, f)
    IN IF existsSync(f, cookiesPath)
       THEN IF copyOk
            THEN [cookiesPath |-> cookiesPath,
                  tempCookiesPath |-> TempCookiesPath(t),
                  cookiesArg |-> TempCookiesPath(t),
                  fs |-> [f EXCEPT ![TempCookiesPath(t)] =
                                       Cookies(f[cookiesPath].owner, FALSE)]]
            ELSE [cookiesPath |-> cookiesPath,
                  tempCookiesPath |-> TempCookiesPath(t),
                  cookiesArg |-> cookiesPath,
                  fs |-> f]
       ELSE [cookiesPath |-> cookiesPath, tempCookiesPath |-> NoPath,
             cookiesArg |-> NoPath, fs |-> f]

\* What one yt-dlp command can do: its exit, what its output says, the file it
\* leaves at the output path, and whether it rewrote its cookie jar.
ToolOutcomes ==
    { [exit |-> "ok", stderr |-> "", file |-> f, jar |-> j] :
        f \in {"none", "empty", "full"}, j \in BOOLEAN }
    \cup { [exit |-> "error", stderr |-> e, file |-> f, jar |-> j] :
             e \in {"429", "Login", "Read-only file system", "other"},
             f \in {"none", "empty", "full"}, j \in BOOLEAN }

\* The files after a command with outcome o ran with --cookies jar -o output.
ToolEffect(f, jar, output, o) ==
    LET f1 == IF o.file = "none" THEN f ELSE [f EXCEPT ![output] = Video(o.file)]
    IN IF jar # NoPath /\ existsSync(f1, jar) /\ f1[jar].kind = "cookies" /\ o.jar
       THEN [f1 EXCEPT ![jar] = Cookies(f1[jar].owner, TRUE)]
       ELSE f1

\* scraper.ts:391-398 and 358-364
CleanTempCookies(f, tempCookiesPath) ==
    IF tempCookiesPath # NoPath /\ existsSync(f, tempCookiesPath)
    THEN unlinkSync(f, tempCookiesPath)
    ELSE f

\* A slip: a command that reported an error is never taken as a success.
AfterAttempt_ExitDecides(f, output, tempCookiesPath, o) ==
    LET full == existsSync(f, output) /\ f[output].kind = "video" /\ f[output].size = "full"
    IN IF o.exit = "ok" /\ full
       THEN [verdict |-> "return", fs |-> f]
       ELSE [verdict |-> "continue",
             fs |-> IF existsSync(f, output) THEN unlinkSync(f, output) ELSE f]

\* A slip: the file of a failed attempt is left at the output path.
AfterAttempt_KeepsPartial(f, output, tempCookiesPath, o) ==
    LET full == existsSync(f, output) /\ f[output].kind = "video" /\ f[output].size = "full"
    IN IF full
       THEN [verdict |-> "return",
             fs |-> IF o.exit = "ok" THEN f ELSE CleanTempCookies(f, tempCookiesPath)]
       ELSE [verdict |-> "continue", fs |-> f]

\* scraper.ts:332-388: what downloadVideo does after one command ended
AfterAttempt(f, output, tempCookiesPath, o) ==
    LET full == existsSync(f, output) /\ f[output].kind = "video" /\ f[output].size = "full"
    IN IF o.exit = "ok"
       THEN IF existsSync(f, output)
            THEN IF full
                 THEN [verdict |-> "return", fs |-> f]
                 ELSE [verdict |-> "continue", fs |-> unlinkSync(f, output)]
            ELSE [verdict |-> "continue", fs |-> f]
       ELSE IF full
            THEN [verdict |-> "return", fs |-> CleanTempCookies(f, tempCookiesPath)]
            ELSE [verdict |-> "continue",
                  fs |-> IF existsSync(f, output) THEN unlinkSync(f, output) ELSE f]

ToolRun(k, jar, f) ==
    [strategy |-> Strategies[k], jar |-> jar,
     material |-> IF jar # NoPath /\ existsSync(f, jar) THEN f[jar].owner ELSE "none"]

IdleRun ==
    [pc |-> "idle", url |-> uGarbage, outputPath |-> NoPath, cookiesPath |-> NoPath,
     tempCookiesPath |-> NoPath, cookiesArg |-> NoPath, strategy |-> 0,
     localPath |-> NoPath, result |-> None]

Runs == DOMAIN run

NoVideoRuns ==
    /\ fs = [p \in AllPaths |-> Absent]
    /\ run = <<>>
    /\ toolRuns = <<>>

\* The canonical cookie files that may be installed (README "Préparation des Cookies").
VideoInitFor(runs) ==
    /\ \E ig \in {Absent, Cookies("instagram", FALSE)},
          tt \in {Absent, Cookies("tiktok", FALSE)} :
         fs = [p \in AllPaths |->
                 IF p = COOKIES_PATH THEN ig
                 ELSE IF p = COOKIES_TIKTOK_PATH THEN tt ELSE Absent]
    /\ run = [v \in runs |-> IdleRun]
    /\ toolRuns = [v \in runs |-> <<>>]

VideoInit == VideoInitFor(1..NumRuns)

\* scraper.ts:411-419 and 279-330: processVideoRecipe is called at millisecond
\* t = Date.now(); downloadVideo prepares the cookie jar and starts the first
\* command.
StartVideo(v, url, t, copyOk) ==
    /\ run[v].pc = "idle"
    /\ LET c == PrepareCookies(url, fs, t, copyOk)
       IN /\ fs' = c.fs
          /\ run' = [run EXCEPT ![v] =
                        [pc |-> "exec", url |-> url, outputPath |-> OutputPath(t),
                         cookiesPath |-> c.cookiesPath,
                         tempCookiesPath |-> c.tempCookiesPath,
                         cookiesArg |-> c.cookiesArg, strategy |-> 1,
                         localPath |-> NoPath, result |-> None]]
          /\ toolRuns' = [toolRuns EXCEPT ![v] = Append(@, ToolRun(1, c.cookiesArg, c.fs))]
    /\ UNCHANGED <<pipelineVars, scraperVars, usageVars, storeVars>>

\* scraper.ts:327-405 and 419-471, 495-515: a command ended.  downloadVideo
\* returns the file, starts the next command, or throws after the last one;
\* processVideoRecipe then reads the file and calls the backend, or returns null.
ExecEnds(v, o) ==
    /\ run[v].pc = "exec"
    /\ LET me == run[v]
           a == AfterAttempt(ToolEffect(fs, me.cookiesArg, me.outputPath, o),
                             me.outputPath, me.tempCookiesPath, o)
       IN IF a.verdict = "return"
          THEN /\ fs' = a.fs
               /\ run' = [run EXCEPT ![v].pc = "backend", ![v].localPath = me.outputPath]
               /\ UNCHANGED toolRuns
          ELSE IF me.strategy < Len(Strategies)
          THEN /\ fs' = a.fs
               /\ run' = [run EXCEPT ![v].strategy = @ + 1]
               /\ toolRuns' = [toolRuns EXCEPT ![v] =
                                  Append(@, ToolRun(me.strategy + 1, me.cookiesArg, a.fs))]
          ELSE /\ fs' = CleanTempCookies(a.fs, me.tempCookiesPath)
               /\ run' = [run EXCEPT ![v].pc = "returned", ![v].result = None]
               /\ UNCHANGED toolRuns
    /\ UNCHANGED <<pipelineVars, scraperVars, usageVars, storeVars>>

\* What can happen once the file is downloaded: readFileSync fails ("unread":
\* the backend is not called), or the backend answers or fails the video
\* structuring call.
VideoBackendOutcomes ==
    { [download |-> "ok", backend |-> "ok", text |-> vSteps, usage |-> VideoUsage],
      [download |-> "ok", backend |-> "ok", text |-> Unparsable, usage |-> VideoUsage],
      [download |-> "ok", backend |-> "429", text |-> Unparsable, usage |-> None],
      [download |-> "ok", backend |-> "404", text |-> Unparsable, usage |-> None],
      [download |-> "ok", backend |-> "error", text |-> Unparsable, usage |-> None],
      [download |-> "ok", backend |-> "unread", text |-> Unparsable, usage |-> None] }

\* A slip: the file is left behind.
FinallyCleanup_Skipped(f, localPath) == f

\* scraper.ts:506-515: the finally block of processVideoRecipe
FinallyCleanup(f, localPath) ==
    IF localPath # NoPath /\ existsSync(f, localPath)
    THEN unlinkSync(f, localPath)
    ELSE f

\* scraper.ts:473-515: the backend call ended; parse, return, and the finally
\* block deletes the local file.
BackendEnds(v, o) ==
    /\ run[v].pc = "backend"
    /\ run' = [run EXCEPT ![v].pc = "returned", ![v].result = processVideoRecipe(o)]
    /\ fs' = FinallyCleanup(fs, run[v].localPath)
    /\ UNCHANGED <<toolRuns, pipelineVars, scraperVars, usageVars, storeVars>>

VideoNext ==
    \/ \E v \in Runs, url \in {uInstagram, uTikTok}, t \in 0..MaxTime, copyOk \in BOOLEAN :
         StartVideo(v, url, t, copyOk)
    \/ \E v \in Runs, o \in ToolOutcomes : ExecEnds(v, o)
    \/ \E v \in Runs, o \in VideoBackendOutcomes : BackendEnds(v, o)

----------------------------------------------------------------------------
(* Page fetcher: ScraperService.scrapeUrl, src/src/services/scraper.ts:35-232 *)

\* The awaited calls inside the try block, in order.  An error of a call marked
\* swallowed is caught on the spot (.catch(() => {}) or try {} catch (e) {});
\* an error of any other call reaches the catch of scraper.ts:219.
ScrapeSteps ==
    << [call |-> "browser.newContext", swallowed |-> FALSE],
       [call |-> "context.addCookies", swallowed |-> FALSE],
       [call |-> "context.newPage", swallowed |-> FALSE],
       [call |-> "page.goto", swallowed |-> FALSE],
       [call |-> "page.waitForLoadState", swallowed |-> TRUE],
       [call |-> "removeModals", swallowed |-> FALSE],
       [call |-> "expand caption", swallowed |-> TRUE],
       [call |-> "view comments", swallowed |-> TRUE],
       [call |-> "scroll and collect comments", swallowed |-> FALSE],
       [call |-> "page.evaluate", swallowed |-> FALSE],
       [call |-> "page.screenshot", swallowed |-> FALSE] >>

ScrapedData == [kind |-> "scrapedData"]

IdleScrape ==
    [pc |-> "idle", step |-> 0, browser |-> "none", closeCalls |-> 0,
     pending |-> None, outcome |-> None]

Scrapes == DOMAIN scrape

NoScrapes == scrape = <<>>

ScraperInit == scrape = [s \in 1..NumScrapes |-> IdleScrape]

\* scraper.ts:39-42: chromium.launch, awaited before the try block
Launch(s, ok) ==
    /\ scrape[s].pc = "idle"
    /\ scrape' = [scrape EXCEPT ![s] =
                     IF ok
                     THEN [@ EXCEPT !.pc = "step", !.step = 1, !.browser = "open"]
                     ELSE [@ EXCEPT !.pc = "threw",
                                    !.outcome = Error("web", <<"chromium.launch">>)]]
    /\ UNCHANGED <<pipelineVars, videoVars, usageVars, storeVars>>

\* scraper.ts:44-211 and 219-222: an awaited call of the try block ended
StepEnds(s, ok) ==
    /\ scrape[s].pc = "step"
    /\ LET k == scrape[s].step
       IN scrape' = [scrape EXCEPT ![s] =
                        IF ok \/ ScrapeSteps[k].swallowed
                        THEN IF k < Len(ScrapeSteps)
                             THEN [@ EXCEPT !.step = k + 1]
                             ELSE [@ EXCEPT !.pc = "closing", !.pending = ScrapedData]
                        ELSE [@ EXCEPT !.pc = "closing",
                                       !.pending = Error("web", <<ScrapeSteps[k].call>>)]]
    /\ UNCHANGED <<pipelineVars, videoVars, usageVars, storeVars>>

closeError == Error("web", <<"browser.close">>)

\* A slip: close is awaited without the inner try/catch.
Completion_CloseErrorWins(own, closeOk) == IF closeOk THEN own ELSE closeError

\* scraper.ts:223-232: what scrapeUrl completes with after the finally block
Completion(own, closeOk) == own

\* scraper.ts:223-232: browser.close() of the finally block ended
CloseEnds(s, closeOk) ==
    /\ scrape[s].pc = "closing"
    /\ LET c == Completion(scrape[s].pending, closeOk)
       IN scrape' = [scrape EXCEPT ![s] =
                        [@ EXCEPT !.pc = IF c.kind = "error" THEN "threw" ELSE "returned",
                                  !.browser = IF closeOk THEN "closed" ELSE "close failed",
                                  !.closeCalls = @ + 1,
                                  !.outcome = c]]
    /\ UNCHANGED <<pipelineVars, videoVars, usageVars, storeVars>>

ScraperNext ==
    \/ \E s \in Scrapes, ok \in BOOLEAN : Launch(s, ok)
    \/ \E s \in Scrapes, ok \in BOOLEAN : StepEnds(s, ok)
    \/ \E s \in Scrapes, closeOk \in BOOLEAN : CloseEnds(s, closeOk)

----------------------------------------------------------------------------
(* Usage aggregation on its own: src/src/index.ts:238-245 *)

NoLedger == ledger = None

\* The entries usageMetrics can hold: its type is (UsageMetrics | undefined)[].
UsageRecords == {None, WebUsage, VideoUsage, Usage(7, 0, 7)}

\* metrics: the records pushed so far; total: the last aggregate computed, over
\* the first totalAt records.
LedgerInit == ledger = [kind |-> "ledger", metrics |-> <<>>, total |-> None, totalAt |-> 0]

\* usageMetrics.push(usage)
PushUsage(u) ==
    /\ Len(ledger.metrics) < MaxMetrics
    /\ ledger' = [ledger EXCEPT !.metrics = Append(@, u)]
    /\ UNCHANGED <<pipelineVars, videoVars, scraperVars, storeVars>>

\* index.ts:239-245
Aggregate ==
    /\ ledger.totalAt # Len(ledger.metrics)
    /\ ledger' = [ledger EXCEPT !.total = aggregatedUsage(ledger.metrics),
                                !.totalAt = Len(ledger.metrics)]
    /\ UNCHANGED <<pipelineVars, videoVars, scraperVars, storeVars>>

UsageNext ==
    \/ \E u \in UsageRecords : PushUsage(u)
    \/ Aggregate

----------------------------------------------------------------------------
(* The store and its routes: the schema in src/unnamed/part_000,           *)
(* src/src/routes/folders.ts and the tags router in src/unnamed/part_007   *)

NoStore == db = None /\ tagCall = <<>> /\ storeReply = None

\* The ids the store can give to new rows (cuid() in the schema).
FolderIds == {"f1", "f2"}

RecipeIds == {"r1", "r2", "r3"}

TagIds == {"t1", "t2", "t3"}

\* NULL in a column, null or an absent key in a body
Null == "null"

\* The tables after the migration: no row.  folders and recipes map the ids of
\* their rows to the rows; tags and recipeTags are the sets of the rows of Tag
\* and of RecipeTag.
EmptyDb ==
    [kind |-> "db", folders |-> <<>>, recipes |-> <<>>, tags |-> {}, recipeTags |-> {}]

StoreInit == db = EmptyDb /\ tagCall = <<>> /\ storeReply = None

\* z.string().min(1).max(max).transform((s) => s.trim())
NameSchema(max, s) ==
    IF Len(s) >= 1 /\ Len(s) <= max
    THEN [success |-> TRUE, name |-> Trim(s)]
    ELSE [success |-> FALSE]

\* folders.ts:7-9
createFolderSchema(s) == NameSchema(200, s)

\* part_007:7-9
createTagSchema(s) == NameSchema(100, s)

LongName(n) == [i \in 1..n |-> "x"]

\* The names a caller posts for a folder: one good, one empty, one too long.
FolderNames == {<<"S", "u", "c", "r", "e">>, <<>>, LongName(201)}

Without(rows, id) == [x \in DOMAIN rows \ {id} |-> rows[x]]

Reply(route, status, data) ==
    [kind |-> "reply", route |-> route, status |-> status, data |-> data]

\* A slip: ON DELETE CASCADE, the recipes of the folder go with it.
Recipe_folder_id_fkey_Cascade(recipes, folder) ==
    [x \in {y \in DOMAIN recipes : recipes[y].folderId # folder} |-> recipes[x]]

\* Recipe_folder_id_fkey ... ON DELETE SET NULL (part_000:16): what deleting
\* the row `folder` of Folder does to the rows of Recipe.
Recipe_folder_id_fkey(recipes, folder) ==
    [x \in DOMAIN recipes |->
        IF recipes[x].folderId = folder
        THEN [recipes[x] EXCEPT !.folderId = Null]
        ELSE recipes[x]]

\* The foreign key refuses a folder_id that is no row of Folder.
FolderKeyHolds(folders, folderId) == folderId = Null \/ folderId \in DOMAIN folders

\* folders.ts:81-93, POST /folders
CreateFolder(raw) ==
    /\ LET parse == createFolderSchema(raw)
       IN IF ~parse.success
          THEN /\ storeReply' = Reply("POST /folders", 400, Null)
               /\ UNCHANGED db
          ELSE \E id \in FolderIds \ DOMAIN db.folders :
                  /\ db' = [db EXCEPT !.folders = (id :> [name |-> parse.name]) @@ @]
                  /\ storeReply' = Reply("POST /folders", 201, id)
    /\ UNCHANGED <<pipelineVars, videoVars, scraperVars, usageVars, tagCall>>

\* folders.ts:123-136, DELETE /folders/:id
DeleteFolder(id) ==
    /\ IF id \in DOMAIN db.folders
       THEN /\ db' = [db EXCEPT !.folders = Without(@, id),
                                !.recipes = Recipe_folder_id_fkey(@, id)]
            /\ storeReply' = Reply("DELETE /folders/:id", 200, id)
       ELSE /\ storeReply' = Reply("DELETE /folders/:id", 404, id)
            /\ UNCHANGED db
    /\ UNCHANGED <<pipelineVars, videoVars, scraperVars, usageVars, tagCall>>

\* recipes.ts:108-139, POST /recipes with a valid body and no tagIds;
\* folderId ?? undefined leaves the column NULL for null and for no key.
CreateRecipe(folderId) ==
    /\ IF ~FolderKeyHolds(db.folders, folderId)
       THEN /\ storeReply' = Reply("POST /recipes", 500, Null)
            /\ UNCHANGED db
       ELSE \E id \in RecipeIds \ DOMAIN db.recipes :
               /\ db' = [db EXCEPT !.recipes =
                             (id :> [folderId |-> folderId, title |-> "Tarte"]) @@ @]
               /\ storeReply' = Reply("POST /recipes", 201, id)
    /\ UNCHANGED <<pipelineVars, videoVars, scraperVars, usageVars, tagCall>>

\* A body of PATCH /recipes/:id: `has` names the keys it carries.
PatchBody(has, title, folderId, tagIds) ==
    [has |-> has, title |-> title, folderId |-> folderId, tagIds |-> tagIds]

\* recipes.ts:159-170: prisma.recipe.update with the fields of the body
UpdatedRecipe(row, body) ==
    [row EXCEPT !.title = IF "title" \in body.has THEN body.title ELSE @,
                !.folderId = IF "folderId" \in body.has THEN body.folderId ELSE @]

\* The foreign key RecipeTag_tag_id_fkey refuses a tag_id that is no row of Tag.
TagKeysHold(tags, tagIds) == tagIds \subseteq {t.id : t \in tags}

\* recipes.ts:159-185: the statements of the handler once the recipe is found:
\* update, then deleteMany and createMany of its tags, each one on its own.
AfterPatch(d, id, body) ==
    IF "folderId" \in body.has /\ ~FolderKeyHolds(d.folders, body.folderId)
    THEN [status |-> 500, db |-> d]
    ELSE LET d1 == [d EXCEPT !.recipes[id] = UpdatedRecipe(@, body)]
             d2 == [d1 EXCEPT !.recipeTags = {l \in @ : l.recipeId # id}]
         IN IF "tagIds" \notin body.has THEN [status |-> 200, db |-> d1]
            ELSE IF ~TagKeysHold(d.tags, body.tagIds) THEN [status |-> 500, db |-> d2]
            ELSE [status |-> 200,
                  db |-> [d2 EXCEPT !.recipeTags =
                             @ \cup {[recipeId |-> id, tagId |-> t] : t \in body.tagIds}]]

\* recipes.ts:144-190, PATCH /recipes/:id with a body the schema accepts
PatchRecipe(id, body) ==
    /\ IF "title" \in body.has /\ body.title = ""
       THEN /\ storeReply' = Reply("PATCH /recipes/:id", 400, id)
            /\ UNCHANGED db
       ELSE IF id \notin DOMAIN db.recipes
       THEN /\ storeReply' = Reply("PATCH /recipes/:id", 404, id)
            /\ UNCHANGED db
       ELSE LET a == AfterPatch(db, id, body)
            IN /\ db' = a.db
               /\ storeReply' = Reply("PATCH /recipes/:id", a.status, id)
    /\ UNCHANGED <<pipelineVars, videoVars, scraperVars, usageVars, tagCall>>

\* recipes.ts:144-190, PATCH /recipes/:id with body { folderId }
MoveRecipe(id, folderId) == PatchRecipe(id, PatchBody({"folderId"}, "", folderId, {}))

\* recipes.ts:195-208, DELETE /recipes/:id; RecipeTag_recipe_id_fkey is
\* ON DELETE CASCADE
DeleteRecipe(id) ==
    /\ IF id \in DOMAIN db.recipes
       THEN /\ db' = [db EXCEPT !.recipes = Without(@, id),
                                !.recipeTags = {l \in @ : l.recipeId # id}]
            /\ storeReply' = Reply("DELETE /recipes/:id", 200, id)
       ELSE /\ storeReply' = Reply("DELETE /recipes/:id", 404, id)
            /\ UNCHANGED db
    /\ UNCHANGED <<pipelineVars, videoVars, scraperVars, usageVars, tagCall>>

StoreNext ==
    \/ \E raw \in FolderNames : CreateFolder(raw)
    \/ \E id \in FolderIds : DeleteFolder(id)
    \/ \E folderId \in FolderIds \cup {Null} : CreateRecipe(folderId)
    \/ \E id \in RecipeIds, folderId \in FolderIds \cup {Null} : MoveRecipe(id, folderId)
    \/ \E id \in RecipeIds : DeleteRecipe(id)

\* The bodies callers send to PATCH /recipes/:id: any of the three keys, a
\* title that may be empty, a folder and tags that may not exist.
PatchBodies ==
    {PatchBody(has, title, folderId, tagIds) :
        has \in SUBSET {"title", "folderId", "tagIds"},
        title \in {"", "Flan"},
        folderId \in {Null, "f1"},
        tagIds \in SUBSET {"t1", "t3"}}

\* The store after POST /tags twice and POST /recipes twice, the first with
\* tagIds ["t1", "t2"]: t3 is the id of no tag.
PatchInit ==
    /\ db = [EmptyDb EXCEPT
                !.tags = {[id |-> "t1", name |-> <<"a">>], [id |-> "t2", name |-> <<"b">>]},
                !.recipes = ("r1" :> [folderId |-> Null, title |-> "Tarte"])
                            @@ ("r2" :> [folderId |-> Null, title |-> "Tarte"]),
                !.recipeTags = {[recipeId |-> "r1", tagId |-> "t1"],
                                [recipeId |-> "r1", tagId |-> "t2"]}]
    /\ tagCall = <<>>
    /\ storeReply = None

PatchNext ==
    \/ \E id \in RecipeIds, body \in PatchBodies : PatchRecipe(id, body)
    \/ \E raw \in FolderNames : CreateFolder(raw)
    \/ \E id \in FolderIds : DeleteFolder(id)

\* The names callers post for a tag: two that trim to the same name, another
\* name, an empty one and one too long.
TagNames == {<<"a">>, <<" ", "a">>, <<"b">>, <<>>, LongName(101)}

IdleCall == [pc |-> "idle", raw |-> <<>>, name |-> <<>>, reply |-> None]

TagCalls == DOMAIN tagCall

TagInit ==
    /\ db = EmptyDb
    /\ tagCall = [c \in 1..NumTagCalls |-> IdleCall]
    /\ storeReply = None

\* The rows the unique index Tag_name_key (part_000:44) finds for a name.
TagsNamed(tags, name) == {t \in tags : t.name = name}

\* part_007:35-43: the body is parsed, then findUnique is awaited
TagReceive(c, raw) ==
    /\ tagCall[c].pc = "idle"
    /\ LET parse == createTagSchema(raw)
       IN IF ~parse.success
          THEN tagCall' = [tagCall EXCEPT ![c] =
                   [pc |-> "done", raw |-> raw, name |-> <<>>,
                    reply |-> Reply("POST /tags", 400, Null)]]
          ELSE tagCall' = [tagCall EXCEPT ![c] =
                   [pc |-> "finding", raw |-> raw, name |-> parse.name,
                    reply |-> None]]
    /\ UNCHANGED <<pipelineVars, videoVars, scraperVars, usageVars, db, storeReply>>

\* part_007:43-48: findUnique answers; the existing tag is returned, or create
\* is awaited
TagFindReturns(c) ==
    /\ tagCall[c].pc = "finding"
    /\ LET existing == TagsNamed(db.tags, tagCall[c].name)
       IN IF existing # {}
          THEN \E t \in existing :
                  tagCall' = [tagCall EXCEPT ![c].pc = "done",
                                             ![c].reply = Reply("POST /tags", 201, t.id)]
          ELSE tagCall' = [tagCall EXCEPT ![c].pc = "creating"]
    /\ UNCHANGED <<pipelineVars, videoVars, scraperVars, usageVars, db, storeReply>>

\* part_007:48-53: create answers with the new row, or rejects on the unique
\* index and the catch answers 500
TagCreateReturns(c) ==
    /\ tagCall[c].pc = "creating"
    /\ IF TagsNamed(db.tags, tagCall[c].name) # {}
       THEN /\ tagCall' = [tagCall EXCEPT ![c].pc = "done",
                                          ![c].reply = Reply("POST /tags", 500, Null)]
            /\ UNCHANGED db
       ELSE \E id \in TagIds \ {t.id : t \in db.tags} :
               /\ db' = [db EXCEPT !.tags = @ \cup {[id |-> id, name |-> tagCall[c].name]}]
               /\ tagCall' = [tagCall EXCEPT ![c].pc = "done",
                                             ![c].reply = Reply("POST /tags", 201, id)]
    /\ UNCHANGED <<pipelineVars, videoVars, scraperVars, usageVars, storeReply>>

TagNext ==
    \/ \E c \in TagCalls, raw \in TagNames : TagReceive(c, raw)
    \/ \E c \in TagCalls : TagFindReturns(c)
    \/ \E c \in TagCalls : TagCreateReturns(c)

\* What a specification of one component leaves out.
Unused(components) ==
    /\ "video" \in components => NoVideoRuns
    /\ "scraper" \in components => NoScrapes
    /\ "usage" \in components => NoLedger
    /\ "store" \in components => NoStore

----------------------------------------------------------------------------
(* The state after construction *)

PipelineInit(requests, envs) ==
    /\ nodeEnv \in envs
    /\ pc = [r \in requests |-> "idle"]
    /\ reqUrl = [r \in requests |-> None]
    /\ reqFlags = [r \in requests |-> None]
    /\ socket = [r \in requests |-> "open"]
    /\ waiting = <<>>
    /\ pending = 0
    /\ extracted = [r \in requests |-> None]
    /\ scrapingError = [r \in requests |-> None]
    /\ videoCalls = [r \in requests |-> 0]
    /\ videoOutcome = [r \in requests |-> None]
    /\ videoResult = [r \in requests |-> None]
    /\ usageMetrics = [r \in requests |-> <<>>]
    /\ response = [r \in requests |-> None]
    /\ billed = [r \in requests |-> ZeroTokens]
    /\ arrival = [r \in requests |-> 0]
    /\ clock = 0

Init ==
    /\ PipelineInit(1..NumRequests, {"development", "production"})
    /\ Unused({"video", "scraper", "usage", "store"})

----------------------------------------------------------------------------
(* POST /process: src/src/index.ts:70-293 *)

\* The task of request r settles with response resp; the queue starts the next.
Settle(r, resp) ==
    LET t == TryToStartAnother(waiting, pending - 1)
    IN /\ pc' = [x \in Requests |->
                    IF x = r THEN "done"
                    ELSE IF x \in t.start THEN "scraping" ELSE pc[x]]
       /\ waiting' = t.queue
       /\ pending' = t.pending
       /\ arrival' = [x \in Requests |-> IF x \in t.start THEN 0 ELSE arrival[x]]
       /\ response' = [response EXCEPT ![r] = resp]

\* req.body of POST /process: the url and the optional flags of the API guide.
Body(url, forceVideo, save) == [url |-> url, forceVideo |-> forceVideo, save |-> save]

Flags(body) == [forceVideo |-> body.forceVideo, save |-> body.save]

\* validation.data: z.object({ url }) keeps the url and strips every other key.
ValidationData(body) == [url |-> body.url]

\* index.ts:91: queue.add(task) for request r
Enqueue(r) ==
    LET t == TryToStartAnother(Append(waiting, r), pending)
    IN /\ pc' = [x \in Requests |->
                    IF x \in t.start THEN "scraping"
                    ELSE IF x = r THEN "queued" ELSE pc[x]]
       /\ waiting' = t.queue
       /\ pending' = t.pending
       /\ clock' = clock + 1
       /\ arrival' = [x \in Requests |->
                         IF x \in t.start THEN 0
                         ELSE IF x = r THEN clock + 1 ELSE arrival[x]]
       /\ UNCHANGED response

\* index.ts:70-91: the handler up to queue.add, for a request of body `body`
ReceiveBody(r, body) ==
    /\ pc[r] = "idle"
    /\ reqUrl' = [reqUrl EXCEPT ![r] = ValidationData(body).url]
    /\ reqFlags' = [reqFlags EXCEPT ![r] = Flags(body)]
    /\ IF ~validateRequest(body.url)
       THEN /\ pc' = [pc EXCEPT ![r] = "rejected"]
            /\ response' = [response EXCEPT ![r] = RejectedResponse]
            /\ UNCHANGED <<waiting, pending, arrival, clock>>
       ELSE Enqueue(r)
    /\ UNCHANGED agentVars
    /\ UNCHANGED <<nodeEnv, socket, extracted, scrapingError, videoCalls,
                   videoOutcome, videoResult, usageMetrics, billed>>

\* A slip: the task is queued without the early return on a failed validation.
Receive_NoValidation(r, url) ==
    /\ pc[r] = "idle"
    /\ reqUrl' = [reqUrl EXCEPT ![r] = url]
    /\ reqFlags' = [reqFlags EXCEPT ![r] = Flags(Body(url, FALSE, FALSE))]
    /\ Enqueue(r)
    /\ UNCHANGED agentVars
    /\ UNCHANGED <<nodeEnv, socket, extracted, scrapingError, videoCalls,
                   videoOutcome, videoResult, usageMetrics, billed>>

\* index.ts:76-91: validation, then queue.add, for a body that carries only a url
Receive(r, url) == ReceiveBody(r, Body(url, FALSE, FALSE))

\* index.ts:109-119: scrapeUrl returned, extractRecipe is called
ScrapeReturns(r) ==
    /\ pc[r] = "scraping"
    /\ pc' = [pc EXCEPT ![r] = "ai_analysis"]
    /\ UNCHANGED agentVars
    /\ UNCHANGED <<nodeEnv, reqUrl, reqFlags, socket, waiting, pending,
                   extracted, scrapingError, videoCalls, videoOutcome,
                   videoResult, usageMetrics, response, billed, arrival,
                   clock>>

ScrapeErrors ==
    { Error("web", <<"page.goto:", "Timeout", "90000ms", "exceeded">>),
      Error("web", <<"net::ERR_NAME_NOT_RESOLVED">>) }

\* The connection to the site timing out before the 90 s of page.goto are over:
\* the browser's own network error, which page.goto rejects with.
ConnectionErrors ==
    { Error("web", <<"page.goto:", "net::ERR_CONNECTION_TIMED_OUT">>),
      Error("web", <<"page.goto:", "net::ERR_TIMED_OUT">>) }

\* The errors of scrapeUrl that are timeouts.
TimeoutErrors ==
    { Error("web", <<"page.goto:", "Timeout", "90000ms", "exceeded">>) }
    \cup ConnectionErrors

\* index.ts:205-214: scrapeUrl threw; the catch calls processVideoRecipe
ScrapeThrows(r, error) ==
    /\ pc[r] = "scraping"
    /\ pc' = [pc EXCEPT ![r] = "video_fallback"]
    /\ scrapingError' = [scrapingError EXCEPT ![r] = error]
    /\ videoCalls' = [videoCalls EXCEPT ![r] = @ + 1]
    /\ UNCHANGED agentVars
    /\ UNCHANGED <<nodeEnv, reqUrl, reqFlags, socket, waiting, pending,
                   extracted, videoOutcome, videoResult, usageMetrics,
                   response, billed, arrival, clock>>

\* A slip: the video path is taken whatever the check says.
StageAfterCheck_AlwaysVideo(recipe, isIncomplete) == "video"

\* index.ts:149 and 196: the stage that follows the completeness check
StageAfterCheck(recipe, isIncomplete) ==
    IF NeedsVideo(recipe, isIncomplete) THEN "video" ELSE "done"

\* index.ts:234-258 and the handler's answer: the task ends with `recipe`
Finish(r, recipe, method, metrics) ==
    IF recipe = None
    THEN Settle(r, FailureResponse(Error("task", <<"Impossible", "d'extraire", "la",
                                                   "recette">>), nodeEnv))
    ELSE Settle(r, SuccessResponse(recipe, method, metrics))

\* index.ts:119-160 and 196-258: extractRecipe returned
ExtractReturns(r, o) ==
    /\ pc[r] = "ai_analysis"
    /\ o.backend = "ok" /\ o.text.kind = "json"
    /\ LET x == extractRecipe(o.text, o.usage)
           metrics == IF x.usage # None THEN Append(usageMetrics[r], x.usage)
                      ELSE usageMetrics[r]
       IN /\ extracted' = [extracted EXCEPT ![r] = x]
          /\ usageMetrics' = [usageMetrics EXCEPT ![r] = metrics]
          /\ billed' = [billed EXCEPT ![r] = AddTokens(@, BackendTokens(o))]
          /\ IF StageAfterCheck(x.recipe, x.isIncomplete) = "video"
             THEN /\ pc' = [pc EXCEPT ![r] = "video"]
                  /\ videoCalls' = [videoCalls EXCEPT ![r] = @ + 1]
                  /\ UNCHANGED <<waiting, pending, response, arrival>>
             ELSE /\ Finish(r, x.recipe, "web_scraping", metrics)
                  /\ UNCHANGED videoCalls
    /\ UNCHANGED agentVars
    /\ UNCHANGED <<nodeEnv, reqUrl, reqFlags, socket, scrapingError,
                   videoOutcome, videoResult, clock>>

\* A slip: on unparsable output the backend is called again.
ExtractThrows_Retries(r, o) ==
    /\ pc[r] = "ai_analysis"
    /\ ~(o.backend = "ok" /\ o.text.kind = "json")
    /\ IF o.backend = "ok"
       THEN UNCHANGED <<pc, scrapingError, videoCalls>>
       ELSE /\ pc' = [pc EXCEPT ![r] = "video_fallback"]
            /\ scrapingError' = [scrapingError EXCEPT ![r] = aiError]
            /\ videoCalls' = [videoCalls EXCEPT ![r] = @ + 1]
    /\ billed' = [billed EXCEPT ![r] = AddTokens(@, BackendTokens(o))]
    /\ UNCHANGED agentVars
    /\ UNCHANGED <<nodeEnv, reqUrl, reqFlags, socket, waiting, pending,
                   extracted, videoOutcome, videoResult, usageMetrics,
                   response, arrival, clock>>

\* ai.ts:246-249 then index.ts:205-214: extractRecipe threw
ExtractThrows(r, o) ==
    /\ pc[r] = "ai_analysis"
    /\ ~(o.backend = "ok" /\ o.text.kind = "json")
    /\ pc' = [pc EXCEPT ![r] = "video_fallback"]
    /\ scrapingError' = [scrapingError EXCEPT ![r] = aiError]
    /\ videoCalls' = [videoCalls EXCEPT ![r] = @ + 1]
    /\ billed' = [billed EXCEPT ![r] = AddTokens(@, BackendTokens(o))]
    /\ UNCHANGED agentVars
    /\ UNCHANGED <<nodeEnv, reqUrl, reqFlags, socket, waiting, pending,
                   extracted, videoOutcome, videoResult, usageMetrics,
                   response, arrival, clock>>

\* A slip: method is set before the steps of the video candidate are looked at.
SelectCandidate_MethodFirst(webRecipe, v) ==
    IF v # None /\ StepsLength(v.recipe) > 0
    THEN [recipe |-> v.recipe, method |-> "video_ai", pushUsage |-> v.usage # None]
    ELSE [recipe |-> webRecipe, method |-> IF v # None THEN "video_ai" ELSE "web_scraping",
          pushUsage |-> FALSE]

\* A slip: the later stage wins whenever it produced a candidate.
SelectCandidate_NoStepsGuard(webRecipe, v) ==
    IF v # None
    THEN [recipe |-> v.recipe, method |-> "video_ai", pushUsage |-> v.usage # None]
    ELSE [recipe |-> webRecipe, method |-> "web_scraping", pushUsage |-> FALSE]

\* A slip: the web candidate is not kept when the video path gives nothing.
SelectCandidate_DropsWeb(webRecipe, v) ==
    IF v # None /\ StepsLength(v.recipe) > 0
    THEN [recipe |-> v.recipe, method |-> "video_ai", pushUsage |-> v.usage # None]
    ELSE [recipe |-> IF v = None THEN None ELSE webRecipe, method |-> "web_scraping",
          pushUsage |-> FALSE]

\* A slip: the video candidate is never taken.
SelectCandidate_KeepsWeb(webRecipe, v) ==
    [recipe |-> webRecipe, method |-> "web_scraping", pushUsage |-> FALSE]

\* A slip: the usage of the video call is not pushed.
SelectCandidate_ForgetsUsage(webRecipe, v) ==
    IF v # None /\ StepsLength(v.recipe) > 0
    THEN [recipe |-> v.recipe, method |-> "video_ai", pushUsage |-> FALSE]
    ELSE [recipe |-> webRecipe, method |-> "web_scraping", pushUsage |-> FALSE]

\* index.ts:162-187: the candidate kept when the web candidate was incomplete
SelectCandidate(webRecipe, v) ==
    IF v # None /\ StepsLength(v.recipe) > 0
    THEN [recipe |-> v.recipe, method |-> "video_ai", pushUsage |-> v.usage # None]
    ELSE [recipe |-> webRecipe, method |-> "web_scraping", pushUsage |-> FALSE]

\* index.ts:160-187 then 234-258: processVideoRecipe returned, web candidate
\* incomplete.  processVideoRecipe catches every error, so the catch at
\* index.ts:188 is never entered.
VideoReturns(r, o) ==
    /\ pc[r] = "video"
    /\ LET v == processVideoRecipe(o)
           sel == SelectCandidate(extracted[r].recipe, v)
           metrics == IF sel.pushUsage THEN Append(usageMetrics[r], v.usage)
                      ELSE usageMetrics[r]
       IN /\ videoOutcome' = [videoOutcome EXCEPT ![r] = o]
          /\ videoResult' = [videoResult EXCEPT ![r] = v]
          /\ usageMetrics' = [usageMetrics EXCEPT ![r] = metrics]
          /\ billed' = [billed EXCEPT ![r] = AddTokens(@, BackendTokens(o))]
          /\ Finish(r, sel.recipe, sel.method, metrics)
    /\ UNCHANGED agentVars
    /\ UNCHANGED <<nodeEnv, reqUrl, reqFlags, socket, extracted,
                   scrapingError, videoCalls, clock>>

bothFailedError ==
    Error("video", <<"Both", "web", "scraping", "and", "video", "analysis", "failed">>)

\* A slip: the error of the inner catch is the one thrown on.
Rethrown_VideoError(webError, videoError) == videoError

\* index.ts:225-230: the error the task rejects with when both paths failed
Rethrown(webError, videoError) == webError

\* index.ts:214-258: processVideoRecipe returned, web path failed
VideoFallbackReturns(r, o) ==
    /\ pc[r] = "video_fallback"
    /\ LET v == processVideoRecipe(o)
           metrics == IF v # None /\ v.usage # None
                      THEN Append(usageMetrics[r], v.usage)
                      ELSE usageMetrics[r]
       IN /\ videoOutcome' = [videoOutcome EXCEPT ![r] = o]
          /\ videoResult' = [videoResult EXCEPT ![r] = v]
          /\ usageMetrics' = [usageMetrics EXCEPT ![r] = metrics]
          /\ billed' = [billed EXCEPT ![r] = AddTokens(@, BackendTokens(o))]
          /\ IF v # None
             THEN Finish(r, v.recipe, "video_ai", metrics)
             ELSE Settle(r, FailureResponse(Rethrown(scrapingError[r], bothFailedError),
                                            nodeEnv))
    /\ UNCHANGED agentVars
    /\ UNCHANGED <<nodeEnv, reqUrl, reqFlags, socket, extracted,
                   scrapingError, videoCalls, clock>>

Next ==
    \/ \E r \in Requests, url \in Urls : Receive(r, url)
    \/ \E r \in Requests : ScrapeReturns(r)
    \/ \E r \in Requests, e \in ScrapeErrors : ScrapeThrows(r, e)
    \/ \E r \in Requests, o \in WebBackendOutcomes : ExtractReturns(r, o)
    \/ \E r \in Requests, o \in WebBackendOutcomes : ExtractThrows(r, o)
    \/ \E r \in Requests, o \in VideoOutcomes : VideoReturns(r, o)
    \/ \E r \in Requests, o \in VideoOutcomes : VideoFallbackReturns(r, o)

Spec == Init /\ [][Next]_vars

\* index.ts:72-73: req.setTimeout(180000) and res.setTimeout(180000) are set
\* with no 'timeout' listener (none on the server either, index.ts:301), so a
\* socket that stays idle for three minutes while its request waits in the
\* queue or runs is destroyed by the http server.  Nothing has been written to
\* it by then; what the handler writes later is dropped.
SocketTimeout(r) ==
    /\ pc[r] \in {"queued"} \cup Executing
    /\ socket[r] = "open"
    /\ socket' = [socket EXCEPT ![r] = "destroyed"]
    /\ UNCHANGED agentVars
    /\ UNCHANGED <<nodeEnv, pc, reqUrl, reqFlags, waiting, pending, extracted,
                   scrapingError, videoCalls, videoOutcome, videoResult,
                   usageMetrics, response, billed, arrival, clock>>

\* The pipeline with the network errors of the browser among scrapeUrl's errors.
FailureNext ==
    \/ Next
    \/ \E r \in Requests, e \in ConnectionErrors : ScrapeThrows(r, e)

FailureSpec == Init /\ [][FailureNext]_vars

\* The folder and recipe routes on their own.
StoreSpecInit ==
    /\ PipelineInit({}, {"production"})
    /\ StoreInit
    /\ Unused({"video", "scraper", "usage"})

StoreSpec == StoreSpecInit /\ [][StoreNext]_vars

\* PATCH /recipes/:id on a store that holds recipes and tags.
PatchSpecInit ==
    /\ PipelineInit({}, {"production"})
    /\ PatchInit
    /\ Unused({"video", "scraper", "usage"})

PatchSpec == PatchSpecInit /\ [][PatchNext]_vars

\* The tags router on its own: concurrent calls of POST /tags.
TagSpecInit ==
    /\ PipelineInit({}, {"production"})
    /\ TagInit
    /\ Unused({"video", "scraper", "usage"})

TagSpec == TagSpecInit /\ [][TagNext]_vars

\* The pipeline called with the optional flags of the API guide, next to the
\* store.
FlagSpecInit ==
    /\ PipelineInit(1..NumRequests, {"development", "production"})
    /\ StoreInit
    /\ Unused({"video", "scraper", "usage"})

FlagNext ==
    \/ Next
    \/ \E r \in Requests, url \in Urls, forceVideo, save \in BOOLEAN :
           ReceiveBody(r, Body(url, forceVideo, save))

FlagSpec == FlagSpecInit /\ [][FlagNext]_vars

\* The pipeline with the three minutes of the socket able to run out.
TimedNext ==
    \/ Next
    \/ \E r \in Requests : SocketTimeout(r)

TimedSpec == Init /\ [][TimedNext]_vars

\* The page fetcher on its own: concurrent calls of scrapeUrl.
ScraperSpecInit ==
    /\ PipelineInit({}, {"production"})
    /\ ScraperInit
    /\ Unused({"video", "usage", "store"})

ScraperSpec == ScraperSpecInit /\ [][ScraperNext]_vars

UsageSpecInit ==
    /\ PipelineInit({}, {"production"})
    /\ LedgerInit
    /\ Unused({"video", "scraper", "store"})

UsageSpec == UsageSpecInit /\ [][UsageNext]_vars

\* The video fetcher on its own: runs of processVideoRecipe over one file system.
VideoSpecInit ==
    /\ PipelineInit({}, {"production"})
    /\ VideoInit
    /\ Unused({"scraper", "usage", "store"})

VideoSpec == VideoSpecInit /\ [][VideoNext]_vars

\* One call of processVideoRecipe, from its download to its return.
DownloadSpecInit ==
    /\ PipelineInit({}, {"production"})
    /\ VideoInitFor({1})
    /\ Unused({"scraper", "usage", "store"})

DownloadSpec == DownloadSpecInit /\ [][VideoNext]_vars

\* The video path of the runs the queue lets execute at the same time.
ConcurrentVideoSpecInit ==
    /\ PipelineInit({}, {"production"})
    /\ VideoInitFor(1..MAX_CONCURRENT_SCRAPES)
    /\ Unused({"scraper", "usage", "store"})

ConcurrentVideoSpec == ConcurrentVideoSpecInit /\ [][VideoNext]_vars

----------------------------------------------------------------------------
(* The admission queue under load: more requests than slots, each run      *)
(* taking one of the pipeline's paths.                                      *)

QueueWebOutcomes ==
    { [backend |-> "ok", text |-> jComplete, usage |-> WebUsage],
      [backend |-> "ok", text |-> jNoSteps, usage |-> WebUsage] }

QueueVideoOutcomes ==
    { [download |-> "ok", backend |-> "ok", text |-> vSteps, usage |-> VideoUsage] }

QueueFallbackOutcomes ==
    { [download |-> "failed", backend |-> "unused", text |-> Unparsable, usage |-> None] }

QueueInit ==
    /\ PipelineInit(1..QueueRequests, {"production"})
    /\ Unused({"video", "scraper", "usage", "store"})

\* An awaited call of some executing run returns or throws.
QueueProgress ==
    \/ \E r \in Requests : ScrapeReturns(r)
    \/ \E r \in Requests :
         ScrapeThrows(r, Error("web", <<"net::ERR_NAME_NOT_RESOLVED">>))
    \/ \E r \in Requests, o \in QueueWebOutcomes : ExtractReturns(r, o)
    \/ \E r \in Requests, o \in QueueVideoOutcomes : VideoReturns(r, o)
    \/ \E r \in Requests, o \in QueueFallbackOutcomes : VideoFallbackReturns(r, o)

QueueNext ==
    \/ \E r \in Requests : Receive(r, uInstagram)
    \/ QueueProgress

QueueSpec == QueueInit /\ [][QueueNext]_vars

\* Every awaited call ends: page.goto and the download run under timeouts.
FairQueueSpec == QueueSpec /\ WF_vars(QueueProgress)

----------------------------------------------------------------------------
(* Properties of the pipeline *)

Answered(r) == response[r].kind = "response"

Succeeded(r) == Answered(r) /\ response[r].success

\* The request was received with a url that validation rejects.
Refused(r) == reqUrl[r] # None /\ ~safeUrlSchema(reqUrl[r])

\* The request failed inside the pipeline (not at validation).
PipelineFailed(r) == Answered(r) /\ ~response[r].success /\ response[r].status # 400

WebCandidate(r) == extracted[r].kind = "extraction"

WebIncomplete(r) ==
    WebCandidate(r) /\ NeedsVideo(extracted[r].recipe, extracted[r].isIncomplete)

VideoCandidate(r) == videoResult[r].kind = "videoResult"

Running == {r \in Requests : pc[r] \in Executing}

InLine(q) == {q[i] : i \in 1..Len(q)}

\* C1: a successful request returns exactly one recipe, and method names the
\* stage whose candidate that recipe is: video_ai exactly when it is the video
\* path's candidate, web_scraping exactly when it is the web path's candidate.
C1_MethodNamesSelectedStage ==
    \A r \in Requests :
        Succeeded(r) =>
            /\ response[r].data.kind = "recipe"
            /\ response[r].method \in {"video_ai", "web_scraping"}
            /\ (response[r].method = "video_ai") <=>
                   (/\ VideoCandidate(r)
                    /\ response[r].data = videoResult[r].recipe
                    /\ response[r].data.src = "video")
            /\ (response[r].method = "web_scraping") <=>
                   (/\ WebCandidate(r)
                    /\ response[r].data = extracted[r].recipe
                    /\ response[r].data.src = "web")

\* A video candidate without steps was produced and discarded for the web one.
C1_Witness ==
    \E r \in Requests :
        /\ Succeeded(r) /\ WebCandidate(r) /\ VideoCandidate(r)
        /\ response[r].method = "web_scraping"

\* C2: the usage of a successful request is the sum of the usage of every
\* structuring call the backend answered during that request.
C2_UsageCountsEveryCall ==
    \A r \in Requests : Succeeded(r) => Tokens(response[r].usage) = billed[r]

C4_ZeroStepVideoDoesNotOverride ==
    \A r \in Requests :
        (/\ pc[r] = "done" /\ WebIncomplete(r)
         /\ VideoCandidate(r) /\ StepsLength(videoResult[r].recipe) = 0) =>
            /\ Succeeded(r)
            /\ response[r].method = "web_scraping"
            /\ response[r].data = extracted[r].recipe

C4_Witness ==
    \E r \in Requests :
        /\ pc[r] = "done" /\ WebIncomplete(r)
        /\ VideoCandidate(r) /\ StepsLength(videoResult[r].recipe) = 0
        /\ Succeeded(r)

\* C5: when the web candidate is incomplete and the video path fails (download,
\* backend quota or other error, unparsable answer), the request succeeds with
\* the web candidate and method web_scraping.
C5_VideoFailureKeepsWebCandidate ==
    \A r \in Requests :
        (/\ pc[r] = "done" /\ WebIncomplete(r)
         /\ videoOutcome[r] # None /\ videoResult[r] = None) =>
            /\ Succeeded(r)
            /\ response[r].method = "web_scraping"
            /\ response[r].data = extracted[r].recipe

\* The backend refused the video call for quota.
C5_Witness ==
    \E r \in Requests :
        /\ pc[r] = "done" /\ WebIncomplete(r)
        /\ videoOutcome[r] # None /\ videoOutcome[r].backend = "429"
        /\ Succeeded(r)

\* C6: when the web candidate is incomplete and the video candidate has at
\* least one step, the video candidate is returned with method video_ai.
C6_VideoWithStepsIsSelected ==
    \A r \in Requests :
        (/\ pc[r] = "done" /\ WebIncomplete(r)
         /\ VideoCandidate(r) /\ StepsLength(videoResult[r].recipe) > 0) =>
            /\ Succeeded(r)
            /\ response[r].method = "video_ai"
            /\ response[r].data = videoResult[r].recipe

C6_Witness ==
    \E r \in Requests :
        /\ pc[r] = "done" /\ WebIncomplete(r)
        /\ VideoCandidate(r) /\ StepsLength(videoResult[r].recipe) > 0
        /\ Succeeded(r)

\* C23: when the web candidate is incomplete and the video candidate, with at
\* least one step, is the one returned, each of the three counts of the returned
\* usage is the sum of the counts the web structuring call and the video
\* structuring call reported (a call that reported none counts for zero).
C23_VideoSelectedUsageIsSum ==
    \A r \in Requests :
        (/\ Succeeded(r) /\ WebIncomplete(r) /\ VideoCandidate(r)
         /\ StepsLength(videoResult[r].recipe) > 0
         /\ response[r].method = "video_ai") =>
            /\ Tokens(response[r].usage)
                   = AddTokens(Tokens(extracted[r].usage), Tokens(videoResult[r].usage))
            /\ Tokens(response[r].usage) = billed[r]

\* Both calls reported their tokens.
C23_Witness ==
    \E r \in Requests :
        /\ Succeeded(r) /\ WebIncomplete(r) /\ VideoCandidate(r)
        /\ response[r].method = "video_ai"
        /\ extracted[r].usage = WebUsage /\ videoResult[r].usage = VideoUsage
        /\ response[r].usage = Usage(110, 25, 135)

\* The caller of request r has received an envelope.
Delivered(r) == Answered(r) /\ socket[r] = "open"

\* C24: every /process request receives one structured response, success or
\* failure envelope, whatever stages fail: once the handler is through with a
\* request, its caller has received the envelope.
C24_EveryRequestAnswered ==
    \A r \in Requests : pc[r] \in {"done", "rejected"} => Delivered(r)

\* C25: the status of a failure response follows the kind of the failure: 400
\* for a validation rejection, 504 for a pipeline failure whose surfaced error
\* is a timeout, 500 for every other pipeline failure.
C25_StatusFollowsFailureKind ==
    \A r \in Requests :
        (Answered(r) /\ ~response[r].success) =>
            response[r].status =
                IF Refused(r) THEN 400
                ELSE IF response[r].caught \in TimeoutErrors THEN 504
                ELSE 500

\* What a response sends: `caught` only records the error the handler caught.
Sent(resp) == DOMAIN resp \ {"kind", "caught"}

\* C26: outside development mode no failure response of /process carries the
\* message or the stack of the underlying error: a pipeline failure's response
\* holds success, the status, the fixed error text and an empty message; a
\* rejection's holds the issues validation found in the caller's body.
C26_NoDetailOutsideDevelopment ==
    nodeEnv # "development" =>
        \A r \in Requests :
            (Answered(r) /\ ~response[r].success) =>
                IF Refused(r)
                THEN /\ Sent(response[r]) = {"success", "status", "error", "details"}
                     /\ response[r].error = "Invalid URL provided"
                     /\ response[r].details = "validation.error.errors"
                ELSE /\ Sent(response[r]) = {"success", "status", "error", "message"}
                     /\ response[r].error = "Failed to process recipe"
                     /\ response[r].message = <<>>

\* A pipeline failure in production whose error has a message.
C26_Witness ==
    \E r \in Requests :
        /\ nodeEnv = "production" /\ PipelineFailed(r)
        /\ response[r].caught.message # <<>>

\* C27: a request that carries forceVideo=true is put on the video path: when
\* it succeeds, its recipe comes from the video analysis, whatever the
\* completeness of the web candidate.
C27_ForceVideoTakesVideoPath ==
    \A r \in Requests :
        (Succeeded(r) /\ reqFlags[r].forceVideo) =>
            /\ videoCalls[r] = 1
            /\ response[r].method = "video_ai"

\* A recipe of request r is in the store.
Stored(r) == Succeeded(r) /\ DOMAIN db.recipes # {}

\* C28: the save flag gates persistence: a successful request with save=true
\* has its recipe stored and its response carries saved=true; without save
\* nothing is stored.
C28_SaveGatesPersistence ==
    \A r \in Requests :
        Succeeded(r) =>
            IF reqFlags[r].save
            THEN /\ Stored(r)
                 /\ "saved" \in DOMAIN response[r]
                 /\ response[r].saved
            ELSE ~Stored(r)

\* C35: every recipe the structuring service returns, from the page path and
\* from the video path, has ingredients, steps and tips as arrays, even when
\* the backend's JSON leaves them out.
C35_RecipesAreNormalized ==
    \A r \in Requests :
        /\ WebCandidate(r) =>
               {"ingredients", "steps", "tips"} \subseteq extracted[r].recipe.present
        /\ VideoCandidate(r) =>
               {"ingredients", "steps", "tips"} \subseteq videoResult[r].recipe.present

\* The outcomes in which the backend refused or failed the call.
BackendFailures(outcomes) == {o \in outcomes : o.backend \in {"429", "404", "error"}}

\* C36: a quota error (429) of the backend has the outcome of any other
\* structuring failure at the same stage.  At the page stage a step taken on a
\* 429 is the step taken on any other failure: the video fallback starts.  At
\* the video stage every failure, 429 included, ends the request the same way:
\* with the web candidate under method web_scraping if there is one, with the
\* web path's error otherwise.  The request is always answered.
C36_QuotaHandledLikeAnyFailure ==
    [][\A r \in Requests :
          /\ \A q, e \in BackendFailures(WebBackendOutcomes) :
                ExtractThrows(r, q) <=> ExtractThrows(r, e)
          /\ \A o \in BackendFailures(VideoOutcomes) :
                (VideoReturns(r, o) \/ VideoFallbackReturns(r, o)) =>
                    /\ pc'[r] = "done"
                    /\ videoResult'[r] = None
                    /\ IF WebCandidate(r)
                       THEN /\ Succeeded(r)'
                            /\ response'[r].method = "web_scraping"
                            /\ response'[r].data = extracted[r].recipe
                       ELSE /\ PipelineFailed(r)'
                            /\ response'[r].caught = scrapingError[r]]_vars

\* The video call of a request with an incomplete web candidate met a 429.
C36_Witness ==
    \E r \in Requests :
        /\ pc[r] = "done" /\ WebIncomplete(r)
        /\ videoOutcome[r] # None /\ videoOutcome[r].backend = "429"
        /\ response[r].method = "web_scraping"
        /\ billed[r] = Tokens(extracted[r].usage)

\* C37: page structuring calls the backend once per call.  On unparsable
\* output extractRecipe does not call again: it fails, and the failure reaches
\* the orchestrator, which starts the video fallback.  The tokens billed for
\* the stage are those of the one call.
C37_UnparsableIsNotRetried ==
    [][\A r \in Requests :
          /\ \A o \in WebBackendOutcomes :
                (ExtractThrows(r, o) /\ o.backend = "ok" /\ o.text = Unparsable) =>
                    /\ pc'[r] = "video_fallback"
                    /\ scrapingError'[r] = aiError
                    /\ extracted'[r] = None
                    /\ videoCalls'[r] = 1
                    /\ billed[r] = ZeroTokens
                    /\ billed'[r] = Tokens(o.usage)
          /\ pc'[r] = "ai_analysis" =>
                /\ pc[r] \in {"scraping", "ai_analysis"}
                /\ billed'[r] = ZeroTokens]_vars

\* The backend answered the page call with text that is no JSON.
C37_Witness ==
    \E r \in Requests :
        /\ pc[r] = "video_fallback"
        /\ scrapingError[r] = aiError
        /\ billed[r] = Tokens(WebUsage)
        /\ extracted[r] = None

\* C38: a successful response with method video_ai returns a recipe with at
\* least one step, on both routes to the video path.
C38_VideoMethodHasSteps ==
    \A r \in Requests :
        (Succeeded(r) /\ response[r].method = "video_ai") =>
            StepsLength(response[r].data) > 0

\* C7: when the web candidate is judged complete the request ends with method
\* web_scraping and processVideoRecipe is never called for it.
C7_CompleteSkipsVideo ==
    \A r \in Requests :
        (WebCandidate(r) /\ ~WebIncomplete(r)) =>
            /\ videoCalls[r] = 0
            /\ videoOutcome[r] = None
            /\ pc[r] = "done"
            /\ Succeeded(r)
            /\ response[r].method = "web_scraping"
            /\ response[r].data = extracted[r].recipe

C7_Witness ==
    \E r \in Requests : WebCandidate(r) /\ ~WebIncomplete(r) /\ Succeeded(r)

\* The request was handed to the queue: it waits, runs or has run.
Queued(r) == r \in InLine(waiting) \/ pc[r] \in Executing \cup {"queued", "done"}

\* C12: a request whose url validation rejects is answered with status 400 and
\* is never queued: no scrape, structuring or video call is made for it.
C12_RejectedNeverQueued ==
    \A r \in Requests :
        Refused(r) =>
            /\ Answered(r) /\ ~response[r].success /\ response[r].status = 400
            /\ ~Queued(r)
            /\ extracted[r] = None /\ scrapingError[r] = None
            /\ videoCalls[r] = 0 /\ videoOutcome[r] = None
            /\ billed[r] = ZeroTokens /\ usageMetrics[r] = <<>>

C12_Witness ==
    \E r \in Requests : Refused(r) /\ reqUrl[r] = uPrivateIp /\ Answered(r)

\* The video path was entered for the web candidate of request r.
VideoTriggered(r) == videoCalls[r] = 1 /\ pc[r] \in {"video", "done"}

\* C13: a web candidate with empty steps is judged incomplete and the video
\* path is entered, whatever its ingredients hold.
C13_EmptyStepsIncomplete ==
    \A r \in Requests :
        (WebCandidate(r) /\ extracted[r].recipe.steps = <<>>) => VideoTriggered(r)

\* Empty steps next to a populated list of ingredients.
C13_Witness ==
    \E r \in Requests :
        /\ WebCandidate(r) /\ extracted[r].recipe.steps = <<>>
        /\ extracted[r].recipe.ingredients # <<>>
        /\ ~extracted[r].isIncomplete
        /\ VideoTriggered(r)

\* C14: a web candidate the backend flagged isIncomplete: true is judged
\* incomplete even with populated steps and ingredients.
C14_FlaggedIncomplete ==
    \A r \in Requests :
        (WebCandidate(r) /\ extracted[r].isIncomplete) => VideoTriggered(r)

\* Flagged, with a step of meaningful length and an ingredient.
C14_Witness ==
    \E r \in Requests :
        /\ WebCandidate(r) /\ extracted[r].isIncomplete
        /\ isValidSteps(extracted[r].recipe) /\ hasIngredients(extracted[r].recipe)
        /\ VideoTriggered(r)

\* C15: a web candidate without ingredients is judged incomplete and the video
\* path is entered, even with a step of meaningful length and no flag.
C15_NoIngredientsIncomplete ==
    \A r \in Requests :
        (WebCandidate(r) /\ ~hasIngredients(extracted[r].recipe)) => VideoTriggered(r)

\* Some step is longer than 10 characters once trimmed.
HasLongStep(recipe) ==
    \E i \in 1..Len(recipe.steps) : Len(Trim(recipe.steps[i])) > 10

\* Some ingredient is longer than 2 characters.
HasLongIngredient(recipe) ==
    \E i \in 1..Len(recipe.ingredients) : Len(recipe.ingredients[i]) > 2

\* C16: a web candidate with a step longer than 10 characters once trimmed, an
\* ingredient longer than 2 characters and no flag is judged complete: the
\* request ends with it and the video path is not entered.
C16_PopulatedComplete ==
    \A r \in Requests :
        (/\ WebCandidate(r) /\ ~extracted[r].isIncomplete
         /\ HasLongStep(extracted[r].recipe)
         /\ HasLongIngredient(extracted[r].recipe)) =>
            /\ videoCalls[r] = 0
            /\ Succeeded(r)
            /\ response[r].method = "web_scraping"
            /\ response[r].data = extracted[r].recipe

\* A short step stands next to the long one.
C16_Witness ==
    \E r \in Requests :
        /\ WebCandidate(r) /\ ~extracted[r].isIncomplete
        /\ Len(extracted[r].recipe.steps) = 2
        /\ HasLongStep(extracted[r].recipe)
        /\ HasLongIngredient(extracted[r].recipe)
        /\ Succeeded(r)

\* C17: a web candidate whose steps are all at most 10 characters long once
\* trimmed is judged incomplete, even with steps present and no flag.
C17_ShortStepsIncomplete ==
    \A r \in Requests :
        (/\ WebCandidate(r)
         /\ \A i \in 1..Len(extracted[r].recipe.steps) :
                Len(Trim(extracted[r].recipe.steps[i])) <= 10) => VideoTriggered(r)

\* The only step is longer than 10 characters before trimming.
C17_Witness ==
    \E r \in Requests :
        /\ WebCandidate(r) /\ ~extracted[r].isIncomplete
        /\ Len(extracted[r].recipe.steps) = 1
        /\ Len(extracted[r].recipe.steps[1]) > 10
        /\ Len(Trim(extracted[r].recipe.steps[1])) <= 10
        /\ VideoTriggered(r)

----------------------------------------------------------------------------
(* Properties of the usage aggregation *)

Permuted(m, p) == [i \in 1..Len(m) |-> m[p[i]]]

\* C22: aggregation is associative and order-independent: an aggregate of the
\* first records, aggregated with the records pushed after it, has the same
\* promptTokens, candidatesTokens and totalTokens as the aggregate of all the
\* records, and so has the aggregate of every permutation of the records.
C22_AggregationOrderIndependent ==
    LET m == ledger.metrics
    IN /\ \A k \in 1..Len(m) :
             aggregatedUsage(<<aggregatedUsage(SubSeq(m, 1, k))>> \o SubSeq(m, k + 1, Len(m)))
                 = aggregatedUsage(m)
       /\ ledger.totalAt >= 1 =>
             aggregatedUsage(<<ledger.total>> \o SubSeq(m, ledger.totalAt + 1, Len(m)))
                 = aggregatedUsage(m)
       /\ \A p \in Permutations(1..Len(m)) :
             aggregatedUsage(Permuted(m, p)) = aggregatedUsage(m)

\* [A, B] was aggregated, then C was pushed; A, B and C differ.
C22_Witness ==
    /\ Len(ledger.metrics) = 3 /\ ledger.totalAt = 2
    /\ ledger.total = aggregatedUsage(SubSeq(ledger.metrics, 1, 2))
    /\ Cardinality({ledger.metrics[i] : i \in 1..3}) = 3
    /\ None \notin {ledger.metrics[i] : i \in 1..3}

----------------------------------------------------------------------------
(* Properties of the store *)

\* C29: deleting a folder deletes no recipe: in a step that removes a folder,
\* every recipe that was in it is still there with folderId null, and every
\* other recipe is as it was.
C29_FolderDeleteKeepsRecipes ==
    [][\A f \in FolderIds :
          (f \in DOMAIN db.folders /\ f \notin DOMAIN db'.folders) =>
              /\ storeReply' = Reply("DELETE /folders/:id", 200, f)
              /\ DOMAIN db'.recipes = DOMAIN db.recipes
              /\ \A x \in DOMAIN db.recipes :
                     db'.recipes[x] =
                         IF db.recipes[x].folderId = f
                         THEN [db.recipes[x] EXCEPT !.folderId = Null]
                         ELSE db.recipes[x]]_vars

\* f1 has just been deleted; a recipe is without folder, another is in f2.
C29_Witness ==
    /\ storeReply = Reply("DELETE /folders/:id", 200, "f1")
    /\ "f1" \notin DOMAIN db.folders
    /\ \E x, y \in DOMAIN db.recipes :
           db.recipes[x].folderId = Null /\ db.recipes[y].folderId = "f2"

\* C40: a PATCH /recipes/:id that ends in an error response leaves the fields
\* of the recipe and its set of tags as they were before the request.
C40_PatchIsAllOrNothing ==
    [][\A id \in RecipeIds, body \in PatchBodies :
          (PatchRecipe(id, body) /\ storeReply'.status >= 400) =>
              /\ db'.recipes = db.recipes
              /\ db'.recipeTags = db.recipeTags]_vars

\* At most one tag per name.
TagNamesUnique == \A t, u \in db.tags : t.name = u.name => t = u

\* C30: whatever the order or interleaving of POST /tags calls with valid
\* names, each call is answered 201 with the tag of its trimmed name, and no
\* two tags have the same name.
C30_TagCallsAlwaysReturnTheTag ==
    /\ \A c \in TagCalls :
           (tagCall[c].pc = "done" /\ createTagSchema(tagCall[c].raw).success) =>
               /\ tagCall[c].reply.status = 201
               /\ [id |-> tagCall[c].reply.data, name |-> Trim(tagCall[c].raw)] \in db.tags
    /\ TagNamesUnique

----------------------------------------------------------------------------
(* Properties of the admission queue *)

C9_FifoNoStarvation ==
    /\ [][/\ \A a, b \in Requests :
               (/\ pc[a] = "queued" /\ pc[b] = "queued"
                /\ arrival[a] < arrival[b]
                /\ pc'[b] # "queued") => pc'[a] # "queued"
          /\ \A r \in Requests :
               pc[r] = "queued" =>
                   \/ pc'[r] = "queued" /\ r \in InLine(waiting')
                   \/ pc'[r] = "scraping"]_vars
    /\ (waiting # <<>>) ~> (waiting = <<>>)

\* The request that waited first has been started while a later one still waits.
C9_Witness ==
    \E a, b \in Requests :
        /\ pc[a] = "queued" /\ arrival[a] > 1
        /\ pc[b] \in Executing /\ arrival[b] = 0
        /\ clock = arrival[a] /\ Cardinality({x \in Requests : pc[x] = "done"}) >= 1
        /\ Len(waiting) = 1

----------------------------------------------------------------------------
(* Properties of the video fetcher *)

\* C10: for a TikTok URL no command of downloadVideo is given cookie material
\* exported from Instagram; without a TikTok cookie file it runs without cookies.
C10_NoCrossPlatformCookies ==
    \A v \in Runs :
        isTikTokUrl(run[v].url) =>
            \A i \in 1..Len(toolRuns[v]) : toolRuns[v][i].material # "instagram"

CanonicalCookies == {COOKIES_PATH, COOKIES_TIKTOK_PATH}

\* C11: no command of downloadVideo is given a canonical cookie file as its
\* cookie jar, and the canonical files are as they were installed after any
\* download attempt.
C11_CanonicalCookiesUntouched ==
    /\ \A v \in Runs :
          \A i \in 1..Len(toolRuns[v]) : toolRuns[v][i].jar \notin CanonicalCookies
    /\ \A p \in CanonicalCookies : existsSync(fs, p) => ~fs[p].rewritten

\* The run is between the start of its download and its return.
Active(v) == run[v].pc \in {"exec", "backend"}

\* C21: two runs of the video path that execute at the same time never have
\* the same temporary video path or the same temporary cookie path.
C21_RunsOwnTheirFiles ==
    \A a, b \in Runs :
        (a # b /\ Active(a) /\ Active(b)) =>
            /\ run[a].outputPath # run[b].outputPath
            /\ run[a].tempCookiesPath # NoPath =>
                   run[a].tempCookiesPath # run[b].tempCookiesPath

\* The command of run v that ends with outcome o leaves a non-empty file at the
\* output path.
LeavesVideo(v, o) ==
    LET f == ToolEffect(fs, run[v].cookiesArg, run[v].outputPath, o)
    IN /\ existsSync(f, run[v].outputPath)
       /\ f[run[v].outputPath].kind = "video"
       /\ f[run[v].outputPath].size = "full"

\* C31: the four strategies are attempted in the listed order: every new
\* attempt is the next one of the list, it starts only when the attempt before
\* it ended without a non-empty output file, and nothing is attempted once an
\* attempt has left a non-empty file or the download has ended.
C31_StrategiesInListedOrder ==
    [][\A v \in Runs :
          /\ toolRuns'[v] # toolRuns[v] =>
                LET n == Len(toolRuns[v])
                IN /\ run[v].pc \in {"idle", "exec"}
                   /\ n < 4
                   /\ toolRuns'[v] = Append(toolRuns[v], toolRuns'[v][n + 1])
                   /\ toolRuns'[v][n + 1].strategy =
                          <<"720p optimized", "720p MP4 fallback",
                            "best quality (720p limit)", "any format">>[n + 1]
                   /\ n >= 1 => \A o \in ToolOutcomes : ExecEnds(v, o) => ~LeavesVideo(v, o)
          /\ \A o \in ToolOutcomes :
                (ExecEnds(v, o) /\ LeavesVideo(v, o)) => toolRuns'[v] = toolRuns[v]]_vars

\* The download went through the four strategies and the last one gave the file.
C31_Witness ==
    \E v \in Runs :
        /\ run[v].pc = "backend"
        /\ Len(toolRuns[v]) = 4
        /\ toolRuns[v][1].strategy = "720p optimized"
        /\ toolRuns[v][4].strategy = "any format"

\* C32: after any attempt, a non-empty file at the output path makes
\* downloadVideo return that path, whether the command exited normally or with
\* an error; without such a file it does not return a path.
C32_FileDecidesSuccess ==
    [][\A v \in Runs : \A o \in ToolOutcomes :
          ExecEnds(v, o) =>
              IF LeavesVideo(v, o)
              THEN /\ run'[v].pc = "backend"
                   /\ run'[v].localPath = run[v].outputPath
                   /\ fs'[run[v].outputPath] = Video("full")
              ELSE /\ run'[v].pc # "backend"
                   /\ run'[v].localPath = NoPath]_vars

\* downloadVideo returned the file of a command that ended with an error: only
\* that return deletes the copied cookie jar.
C32_Witness ==
    \E v \in Runs :
        /\ run[v].pc = "backend"
        /\ run[v].localPath = run[v].outputPath
        /\ fs[run[v].localPath] = Video("full")
        /\ run[v].cookiesArg = run[v].tempCookiesPath
        /\ run[v].tempCookiesPath # NoPath
        /\ ~existsSync(fs, run[v].tempCookiesPath)

DownloadFailed(v) == run[v].pc = "returned" /\ run[v].localPath = NoPath

\* C34: downloadVideo fails only when all four strategies were attempted and
\* none left a non-empty file, and it fails once: whatever error an attempt
\* reports, it does not fail while a strategy is untried.
C34_FailsOnlyWhenExhausted ==
    [][\A v \in Runs :
          /\ \A o \in ToolOutcomes :
                ExecEnds(v, o) =>
                    IF run[v].strategy = 4 /\ ~LeavesVideo(v, o)
                    THEN /\ DownloadFailed(v)'
                         /\ Len(toolRuns[v]) = 4
                         /\ run'[v].result = None
                    ELSE ~DownloadFailed(v)'
          /\ DownloadFailed(v) => run'[v] = run[v] /\ toolRuns'[v] = toolRuns[v]]_vars

\* The four strategies were attempted and none left a file.
C34_Witness ==
    \E v \in Runs :
        /\ DownloadFailed(v)
        /\ Len(toolRuns[v]) = 4
        /\ run[v].strategy = 4
        /\ run[v].result = None

\* C39: processVideoRecipe never throws.  Whatever fails inside it, the
\* download after its last strategy, the read of the file, the backend with
\* any status, the parse of its answer, the call returns null; it returns a
\* recipe only for an answer that parses.
C39_VideoFailureIsNull ==
    [][\A v \in Runs :
          /\ \A o \in VideoBackendOutcomes :
                BackendEnds(v, o) =>
                    /\ run'[v].pc = "returned"
                    /\ IF o.backend = "ok" /\ o.text.kind = "json"
                       THEN run'[v].result.kind = "videoResult"
                       ELSE run'[v].result = None
          /\ \A o \in ToolOutcomes :
                (ExecEnds(v, o) /\ run'[v].pc # "exec") =>
                    \/ run'[v].pc = "backend"
                    \/ run'[v].pc = "returned" /\ run'[v].result = None
          /\ run'[v].pc \in {"idle", "exec", "backend", "returned"}]_vars

\* The file was downloaded, the call after it failed, null was returned and the
\* file is gone.
C39_Witness ==
    \E v \in Runs :
        /\ run[v].pc = "returned"
        /\ run[v].localPath # NoPath
        /\ run[v].result = None
        /\ ~existsSync(fs, run[v].localPath)

C19_TempCookiesDiscarded ==
    \A v \in Runs :
        run[v].pc \in {"backend", "returned"} =>
            (run[v].tempCookiesPath = NoPath \/ ~existsSync(fs, run[v].tempCookiesPath))

----------------------------------------------------------------------------
(* Properties of the page fetcher *)

ScrapeEnded(s) == scrape[s].pc \in {"returned", "threw"}

\* C20: once scrapeUrl has returned or thrown, the browser it launched is not
\* left open: browser.close() was awaited exactly once, and the browser is
\* closed when that call succeeded; scrapeUrl returns its data or throws the
\* error of its own failed call, never the error of close.
C20_BrowserReleased ==
    \A s \in Scrapes :
        /\ ScrapeEnded(s) /\ scrape[s].browser # "none" =>
               /\ scrape[s].browser \in {"closed", "close failed"}
               /\ scrape[s].closeCalls = 1
               /\ scrape[s].outcome = scrape[s].pending
               /\ scrape[s].outcome # closeError
               /\ (scrape[s].pc = "returned") <=> (scrape[s].outcome = ScrapedData)
        /\ scrape[s].browser = "open" => scrape[s].pc \in {"step", "closing"}

\* Navigation failed and close failed too; another call returned its data.
C20_Witness ==
    \E a, b \in Scrapes :
        /\ scrape[a].pc = "threw"
        /\ scrape[a].outcome = Error("web", <<"page.goto">>)
        /\ scrape[a].browser = "close failed"
        /\ scrape[b].pc = "returned" /\ scrape[b].browser = "closed"

====
